---- MODULE Spec2Model ----
(***************************************************************************)
(* A model of ecs-service-image-updater: the task definition transformer   *)
(* (updateTaskDefinitionImage), the task definition locator                *)
(* (currentTaskDefinition and its two lookups) and the run as a whole      *)
(* (updater: locate, transform, publish, repoint, wait), and the waiter    *)
(* that polls a service until a revision is the only one deployed.         *)
(*                                                                         *)
(* Objects are modelled with a small heap: lodash's _.clone and _.pick are *)
(* shallow, so the containerDefinitions array of a cloned or picked        *)
(* document is the very array of the source document.                      *)
(***************************************************************************)
EXTENDS Integers, Sequences, FiniteSets, TLC

VARIABLES
    \* ---- transformer (updateTaskDefinitionImage called on a fetched document)
    heap,            \* array reference -> sequence of container definitions
    taskDefinition,  \* the fetched document D: [cd: array reference, fields]
    containerNames,  \* the containerNames argument (an array or a single name)
    image,           \* the image argument
    before,          \* containerDefinitions of D as they were before the call
    ret,             \* outcome of updateTaskDefinitionImage(D, names, image)
    ret2,            \* outcome of applying the same (names, image) to ret.doc
    \* ---- locator (currentTaskDefinition)
    options,         \* [serviceName, taskDefinitionFamily, clusterArn, wait]
    variant,         \* which snapshot of the module runs
    latest,          \* outcome of the by-family lookup
    service,         \* outcome of the by-service lookup
    results,         \* the two promises Promise.all waits for
    invoked,         \* lookup functions invoked so far
    calls,           \* remote calls issued so far, in order
    inflight,        \* remote operations awaiting their response
    responses,       \* op -> the response the remote service gave
    stage,           \* position of currentTaskDefinition
    cbCalls,         \* invocations of the caller's callback, in order
    \* ---- run (updater)
    entry,           \* who gave currentTaskDefinition its callback
    phase,           \* position of the waterfall of updater
    finalCalls,      \* invocations of the callback given to updater, in order
    deployed,        \* the revision the remote service runs, once known
    returned,        \* what the call of updater handed back to its caller
    \* ---- waiter
    waiterOptions,   \* the options given to waiter
    timers,          \* delays (ms) of the timers set and not yet fired
    outstanding,     \* describeServices calls of the waiter awaiting a response
    polls,           \* calls of periodicCheck so far
    response,        \* the response describeServices gave the current poll
    polled,          \* what the current poll got: the error or service.deployments
    logged,          \* what the last run of the poll's callback wrote with console.log
    waiterCb,        \* invocations of the callback given to waiter, in order
    rollout          \* how far the service's rollout is, where the remote side is followed

tvars == <<heap, taskDefinition, containerNames, image, before, ret, ret2>>
lvars == <<options, variant, latest, service, results, invoked, calls, inflight,
           responses, stage, cbCalls>>
pvars == <<entry, phase, finalCalls, deployed, returned>>
wvars == <<waiterOptions, timers, outstanding, polls, response, polled, logged, waiterCb,
           rollout>>
vars == <<heap, taskDefinition, containerNames, image, before, ret, ret2,
          options, variant, latest, service, results, invoked, calls, inflight,
          responses, stage, cbCalls, entry, phase, finalCalls, deployed, returned,
          waiterOptions, timers, outstanding, polls, response, polled, logged,
          waiterCb, rollout>>

----------------------------------------------------------------------------
\* Bounds of the model

MaxContainers == 2
MaxNames == 2
MaxServices == 2

\* The snapshots of the module that are modelled:
\*   "index"      Promise.all over promise-returning lookups; the transformer
\*                checks that each requested container exists;
\*   "wrapped"    callback-style lookups wrapped in promises of its own; the
\*                transformer checks that each requested container exists;
\*   "callbacks"  async.parallel over callback-style lookups; the transformer
\*                does not check;
\*   "sdk2"       as "callbacks", the remote calls taking callbacks themselves,
\*                with a fourth stage that waits for the service to be stable.
Variants == {"index", "wrapped", "callbacks", "sdk2"}

\* The snapshots whose currentTaskDefinition runs its lookups with
\* async.parallel and whose transformer does not check the index.
CallbackStyle == {"callbacks", "sdk2"}

Names == {"app", "worker", "db"}
Images == {"image:1", "image:2"}

----------------------------------------------------------------------------
\* Documents

\* The allow-list of _.pick, other than containerDefinitions.
PickedFields ==
    {"executionRoleArn", "family", "networkMode", "placementConstraints",
     "taskRoleArn", "volumes", "requiresCompatibilities", "cpu", "memory"}

\* Fields a described task definition carries besides the picked ones.
IncidentalFields == {"taskDefinitionArn", "revision", "status"}

\* The auxiliary fields the data model lists (family is not among them).
AuxiliaryFields ==
    {"executionRoleArn", "networkMode", "placementConstraints", "taskRoleArn",
     "volumes", "requiresCompatibilities", "cpu", "memory"}

DocShapes ==
    { PickedFields \cup IncidentalFields,
      {"family", "taskDefinitionArn", "executionRoleArn"},
      {"family", "taskDefinitionArn", "revision", "cpu", "memory", "networkMode"} }

FieldVersions == {"a", "b"}

NoFields == [f \in {} |-> <<>>]
NoDoc == [cd |-> "none", fields |-> NoFields]
NoError == [kind |-> "none", name |-> ""]
NULL == "undefined"

Range(s) == {s[i] : i \in 1..Len(s)}

SeqsUpTo(S, n) == UNION {[1..k -> S] : k \in 0..n}

ContainerDefinition == [name : Names, image : Images]

\* Container names are unique within a task definition.
ContainerArrays ==
    {cds \in SeqsUpTo(ContainerDefinition, MaxContainers) :
        /\ Len(cds) >= 1
        /\ \A i, j \in 1..Len(cds) : cds[i].name = cds[j].name => i = j}

\* The containerNames argument: an array of names, or one bare name.
ContainerNamesArgs ==
    {[isArray |-> TRUE, value |-> s, name |-> NULL] : s \in SeqsUpTo(Names, MaxNames)}
    \cup {[isArray |-> FALSE, value |-> <<>>, name |-> n] : n \in Names}

----------------------------------------------------------------------------
\* updateTaskDefinitionImage

ContainerNotFound(n) == [kind |-> "ContainerNotFound", name |-> n]

\* _.findIndex: the 0-based index of the first match, -1 when there is none.
RECURSIVE findIndexFrom(_, _, _)
findIndexFrom(cds, containerName, i) ==
    IF i >= Len(cds) THEN -1
    ELSE IF cds[i + 1].name = containerName THEN i
    ELSE findIndexFrom(cds, containerName, i + 1)

findIndex(cds, containerName) == findIndexFrom(cds, containerName, 0)

\* if (!_.isArray(containerNames)) containerNames = [containerNames]
normalize(arg) == IF arg.isArray THEN arg.value ELSE <<arg.name>>

\* Mutant: the image is written to every container, whatever its name.
RECURSIVE forEachContainerNameAll(_, _, _)
forEachContainerNameAll(cds, names, img) ==
    IF names = <<>> THEN [cds |-> cds, error |-> NoError]
    ELSE IF findIndex(cds, Head(names)) = -1
         THEN [cds |-> cds, error |-> ContainerNotFound(Head(names))]
         ELSE forEachContainerNameAll(
                  [i \in 1..Len(cds) |-> [cds[i] EXCEPT !.image = img]],
                  Tail(names), img)

\* TypeError: Cannot set properties of undefined (setting 'image')
TypeError == [kind |-> "TypeError", name |-> ""]

\* containerNames.forEach(...) of the "callbacks" snapshot: the index is not
\* checked, and the write through containerDefinitions[-1] is a TypeError.
RECURSIVE forEachContainerNameUnchecked(_, _, _)
forEachContainerNameUnchecked(cds, names, img) ==
    IF names = <<>> THEN [cds |-> cds, error |-> NoError]
    ELSE LET containerIndex == findIndex(cds, Head(names)) IN
         IF containerIndex = -1
         THEN [cds |-> cds, error |-> TypeError]
         ELSE forEachContainerNameUnchecked(
                  [cds EXCEPT ![containerIndex + 1].image = img],
                  Tail(names), img)

\* Mutant: the container with the new image is appended to the array instead
\* of being overwritten in place.
RECURSIVE forEachContainerNamePush(_, _, _)
forEachContainerNamePush(cds, names, img) ==
    IF names = <<>> THEN [cds |-> cds, error |-> NoError]
    ELSE LET containerIndex == findIndex(cds, Head(names)) IN
         IF containerIndex = -1
         THEN [cds |-> cds, error |-> ContainerNotFound(Head(names))]
         ELSE forEachContainerNamePush(
                  Append(cds, [name |-> Head(names), image |-> img]),
                  Tail(names), img)

\* containerNames.forEach(...) of the "index" and "wrapped" snapshots: the
\* array is written in place, name by name; a name without a container throws
\* and leaves the earlier writes in place.
RECURSIVE forEachContainerName(_, _, _)
forEachContainerName(cds, names, img) ==
    IF names = <<>> THEN [cds |-> cds, error |-> NoError]
    ELSE LET containerIndex == findIndex(cds, Head(names)) IN
         IF containerIndex = -1
         THEN [cds |-> cds, error |-> ContainerNotFound(Head(names))]
         ELSE forEachContainerName(
                  [cds EXCEPT ![containerIndex + 1].image = img],
                  Tail(names), img)

\* Mutant: the allow-list also lets the revision identity through.
pickWithArn(doc) ==
    [cd |-> doc.cd,
     fields |-> [f \in (DOMAIN doc.fields) \cap (PickedFields \cup {"taskDefinitionArn"})
                    |-> doc.fields[f]]]

\* _.pick(newTaskDefinition, [...]): a new object holding the listed fields
\* that are present; containerDefinitions keeps its array reference.
pick(doc) ==
    [cd |-> doc.cd,
     fields |-> [f \in (DOMAIN doc.fields) \cap PickedFields |-> doc.fields[f]]]

\* _.clone(taskDefinition): a new top-level object with the same field values,
\* in particular the same containerDefinitions array reference.
clone(doc) == [cd |-> doc.cd, fields |-> doc.fields]

\* The whole call: the heap after it and what it returned or threw.
updateTaskDefinitionImage(v, h, doc, namesArg, img) ==
    LET newTaskDefinition == clone(doc)
        r == IF v \in CallbackStyle
             THEN forEachContainerNameUnchecked(h[newTaskDefinition.cd],
                                                normalize(namesArg), img)
             ELSE forEachContainerName(h[newTaskDefinition.cd], normalize(namesArg), img)
        h2 == [h EXCEPT ![newTaskDefinition.cd] = r.cds]
    IN  IF r.error # NoError
        THEN [heap |-> h2, status |-> "threw", doc |-> NoDoc, error |-> r.error]
        ELSE [heap |-> h2, status |-> "returned", doc |-> pick(newTaskDefinition),
              error |-> NoError]

NoReturn == [status |-> "none", doc |-> NoDoc, error |-> NoError, cds |-> <<>>]

\* What the caller holds when the call ends: the returned document (and its
\* containers as they are at that moment) or the error thrown.
Outcome(r) ==
    [status |-> r.status, doc |-> r.doc, error |-> r.error,
     cds |-> IF r.status = "returned" THEN r.heap[r.doc.cd] ELSE <<>>]

----------------------------------------------------------------------------
\* Promises, errors and the remote service

Idle == [st |-> "idle", val |-> NULL, err |-> NoError]
Pending == [st |-> "pending", val |-> NULL, err |-> NoError]
Fulfilled(v) == [st |-> "fulfilled", val |-> v, err |-> NoError]
Rejected(e) == [st |-> "rejected", val |-> NULL, err |-> e]

NoOptions ==
    [serviceName |-> NULL, taskDefinitionFamily |-> NULL, clusterArn |-> NULL,
     wait |-> FALSE]

ServiceNames == {"planet-express", "other"}
Families == {"simpsons"}
Clusters == {"arn:cluster"}
Arns == {"arn:1", "arn:2", "arn:3"}

\* The revision number an identity carries.
Revision(arn) == CASE arn = "arn:1" -> 1 [] arn = "arn:2" -> 2 [] arn = "arn:3" -> 3

\* new Error('Ensure either the serviceName or taskDefinitionFamily option are specified')
ConfigurationError == [kind |-> "EnsureServiceNameOrFamily", name |-> ""]
\* new Error(`Could not find service "${options.serviceName}"`)
ServiceNotFound(n) == [kind |-> "ServiceNotFound", name |-> n]
\* `family` is not a binding of the function: building the message throws.
FamilyReferenceError == [kind |-> "ReferenceError", name |-> "family"]
\* new Error('Error could not find task definition')
NoTaskDefinitionError == [kind |-> "NoTaskDefinition", name |-> ""]
\* new Error(`No Task Definitions found in family "${n}"`), had it been built.
FamilyNotFound(n) == [kind |-> "FamilyNotFound", name |-> n]
\* The rejection of a remote call.
RemoteError(op) == [kind |-> "RemoteError", name |-> op]

NoTaskDefinition == [taskDefinitionArn |-> NULL]
NoResponse == [status |-> "none"]
NoResponses ==
    [listTaskDefinitions |-> NoResponse, describeServices |-> NoResponse,
     describeTaskDefinition |-> NoResponse, registerTaskDefinition |-> NoResponse,
     updateService |-> NoResponse, waitFor |-> NoResponse]

\* The entries a describe-services response may hold.
ServiceEntries == [serviceName : ServiceNames, taskDefinition : Arns]
ServiceLists == SeqsUpTo(ServiceEntries, MaxServices)

\* The remote service lists the revisions of the requested status in the
\* requested order.
RECURSIVE SortDesc(_)
SortDesc(S) ==
    IF S = {} THEN <<>>
    ELSE LET m == CHOOSE a \in S : \A b \in S : Revision(b) <= Revision(a)
         IN  <<m>> \o SortDesc(S \ {m})

Reverse(q) == [i \in 1..Len(q) |-> q[Len(q) + 1 - i]]

listRevisions(params, active) ==
    LET selected == IF params.status = "ACTIVE" THEN active ELSE Arns \ active
    IN  IF params.sort = "DESC" THEN SortDesc(selected) ELSE Reverse(SortDesc(selected))

----------------------------------------------------------------------------
\* The lookups of currentTaskDefinition

\* getLatestActiveTaskDefinition: the params of listTaskDefinitions.
listTaskDefinitionsParams(opts) ==
    [familyPrefix |-> opts.taskDefinitionFamily, sort |-> "DESC", status |-> "ACTIVE"]

\* getServiceTaskDefinition: the params of describeServices.
describeServicesParams(opts) ==
    [cluster |-> opts.clusterArn, services |-> <<opts.serviceName>>]

\* Mutant: the last listed identity is taken instead of the first.
latestOfLast(taskDefinitionArns) ==
    IF Len(taskDefinitionArns) = 0
    THEN Rejected(FamilyReferenceError)
    ELSE Fulfilled(taskDefinitionArns[Len(taskDefinitionArns)])

\* getLatestActiveTaskDefinition: what the lookup makes of the listed identities.
latestOf(taskDefinitionArns) ==
    IF Len(taskDefinitionArns) = 0
    THEN Rejected(FamilyReferenceError)
    ELSE Fulfilled(taskDefinitionArns[1])

\* Mutant: the first entry of the response is taken, whatever its name.
serviceTaskDefinitionOfFirst(opts, services) ==
    IF Len(services) = 0
    THEN Rejected(ServiceNotFound(opts.serviceName))
    ELSE Fulfilled(services[1].taskDefinition)

\* getServiceTaskDefinition: _.find the entry named options.serviceName.
serviceTaskDefinitionOf(opts, services) ==
    LET matches == {i \in 1..Len(services) : services[i].serviceName = opts.serviceName}
    IN  IF matches = {}
        THEN Rejected(ServiceNotFound(opts.serviceName))
        ELSE LET first == CHOOSE i \in matches : \A k \in matches : i <= k
             IN  Fulfilled(services[first].taskDefinition)

\* Mutant: the request shape is not checked.
neitherModeUnchecked(opts) == FALSE

\* !options.serviceName && !options.taskDefinitionFamily
neitherMode(opts) == opts.serviceName = NULL /\ opts.taskDefinitionFamily = NULL

\* Mutant: the last non-empty outcome is taken instead of the first.
firstIdentityLast(rs) ==
    LET found == SelectSeq(<<rs[1].val, rs[2].val>>, LAMBDA v : v # NULL)
    IN  IF found = <<>> THEN NULL ELSE found[Len(found)]

\* _.filter(results, (result) => result)[0], then the throw or the fetch.
firstIdentity(rs) ==
    LET found == SelectSeq(<<rs[1].val, rs[2].val>>, LAMBDA v : v # NULL)
    IN  IF found = <<>> THEN NULL ELSE found[1]

Call(op, params) == [op |-> op, params |-> params]
Callback(err, td) == [err |-> err, taskDefinition |-> td]

\* What follows a settlement of the lookups: Promise.all rejects with the
\* rejection of a lookup, or, both fulfilled, the handler picks the identity
\* and fetches its document. The result is the new <<stage, calls, inflight,
\* cbCalls>>.
afterLookups(rs, st, cs, infl, cbs) ==
    IF st # "lookups" THEN <<st, cs, infl, cbs>>
    ELSE IF \E i \in 1..2 : rs[i].st = "rejected"
    THEN LET i == CHOOSE k \in 1..2 : rs[k].st = "rejected"
         IN  <<"done", cs, infl, Append(cbs, Callback(rs[i].err, NoTaskDefinition))>>
    ELSE IF \A i \in 1..2 : rs[i].st = "fulfilled"
    THEN LET taskDefinitionArn == firstIdentity(rs) IN
         IF taskDefinitionArn = NULL
         THEN <<"done", cs, infl,
                Append(cbs, Callback(NoTaskDefinitionError, NoTaskDefinition))>>
         ELSE <<"describing",
                Append(cs, Call("describeTaskDefinition",
                                [taskDefinition |-> taskDefinitionArn])),
                infl \cup {"describeTaskDefinition"}, cbs>>
    ELSE <<st, cs, infl, cbs>>

----------------------------------------------------------------------------
\* The transformer called on a fetched document (specification SpecTransform)

\* The only array of the heap: the containerDefinitions array of D.
ArrayOfD == "D.containerDefinitions"

\* waiter has not been called.
NoWaiterOptions ==
    [serviceName |-> NULL, clusterArn |-> NULL, taskDefinitionArn |-> NULL,
     interval |-> NULL, verbose |-> FALSE]
NothingLogged == [kind |-> "nothing", output |-> <<>>]
NothingPolled == [status |-> "none", err |-> NoError, deployments |-> <<>>]
NothingDescribed == [status |-> "none", services |-> <<>>]
\* The remote side is not followed: a poll may be answered with anything.
NoRollout == "not followed"
IdleWaiter ==
    /\ rollout = NoRollout
    /\ waiterOptions = NoWaiterOptions
    /\ timers = <<>>
    /\ outstanding = 0
    /\ polls = 0
    /\ response = NothingDescribed
    /\ polled = NothingPolled
    /\ logged = NothingLogged
    /\ waiterCb = <<>>

\* updater is not running: currentTaskDefinition, if called, is called with
\* a callback of its caller's.
IdleRun ==
    /\ entry = "currentTaskDefinition"
    /\ phase = "off"
    /\ finalCalls = <<>>
    /\ deployed = NULL
    /\ returned = "nothing yet"
    /\ IdleWaiter

IdleLocator ==
    /\ options = NoOptions
    /\ latest = Idle
    /\ service = Idle
    /\ results = <<Idle, Idle>>
    /\ invoked = {}
    /\ calls = <<>>
    /\ inflight = {}
    /\ responses = NoResponses
    /\ stage = "off"
    /\ cbCalls = <<>>

InitTransform ==
    /\ \E cds \in ContainerArrays : heap = [r \in {ArrayOfD} |-> cds]
    /\ \E shape \in DocShapes, v \in FieldVersions :
           taskDefinition = [cd |-> ArrayOfD, fields |-> [f \in shape |-> <<f, v>>]]
    /\ containerNames \in ContainerNamesArgs
    /\ image \in Images
    /\ before = heap[ArrayOfD]
    /\ ret = NoReturn
    /\ ret2 = NoReturn
    /\ variant \in Variants
    /\ IdleLocator
    /\ IdleRun

\* updater.updateTaskDefinitionImage(taskDefinition, containerNames, image)
Transform ==
    /\ ret.status = "none"
    /\ LET r == updateTaskDefinitionImage(variant, heap, taskDefinition, containerNames, image) IN
         /\ heap' = r.heap
         /\ ret' = Outcome(r)
    /\ UNCHANGED <<taskDefinition, containerNames, image, before, ret2>>
    /\ UNCHANGED lvars
    /\ UNCHANGED pvars
    /\ UNCHANGED wvars

\* The same (containerNames, image) applied to the document the first call returned.
TransformAgain ==
    /\ ret.status = "returned"
    /\ ret2.status = "none"
    /\ LET r == updateTaskDefinitionImage(variant, heap, ret.doc, containerNames, image) IN
         /\ heap' = r.heap
         /\ ret2' = Outcome(r)
    /\ UNCHANGED <<taskDefinition, containerNames, image, before, ret>>
    /\ UNCHANGED lvars
    /\ UNCHANGED pvars
    /\ UNCHANGED wvars

NextTransform == Transform \/ TransformAgain

SpecTransform == InitTransform /\ [][NextTransform]_vars

----------------------------------------------------------------------------
\* Claims about updateTaskDefinitionImage

\* The names the call was asked to update, and those of D's containers.
Requested == Range(normalize(containerNames))
NamesOfD == {before[i].name : i \in 1..Len(before)}

\* C1: for a non-empty set S of names all present in D, the call returns a
\* document whose containers named in S have the supplied image, whose other
\* containers have the image they had in D, and whose listed auxiliary fields
\* are those of D.
C1_ImagesAndAuxiliaryFields ==
    (ret.status # "none" /\ Requested # {} /\ Requested \subseteq NamesOfD) =>
        /\ ret.status = "returned"
        /\ Len(ret.cds) = Len(before)
        /\ \A i \in 1..Len(before) :
               /\ ret.cds[i].name = before[i].name
               /\ ret.cds[i].name \in Requested => ret.cds[i].image = image
               /\ ret.cds[i].name \notin Requested => ret.cds[i].image = before[i].image
        /\ \A f \in AuxiliaryFields :
               IF f \in DOMAIN taskDefinition.fields
               THEN /\ f \in DOMAIN ret.doc.fields
                    /\ ret.doc.fields[f] = taskDefinition.fields[f]
               ELSE f \notin DOMAIN ret.doc.fields

C1_Witness ==
    /\ ret.status = "returned"
    /\ \E i, j \in 1..Len(before) :
           /\ before[i].name \in Requested
           /\ before[i].image # image
           /\ ret.cds[i].image = image
           /\ before[j].name \notin Requested
           /\ before[j].image # image
    /\ AuxiliaryFields \subseteq DOMAIN taskDefinition.fields

\* C2: a successful call never mutates the fetched document D: every
\* container of D still has the image it had before the call.
C2_SourceNotMutated ==
    ret.status = "returned" => heap[taskDefinition.cd] = before

\* C3: for a name n matching no container of D, the call with {n} fails with
\* a container-not-found error identifying n, and D is not mutated.
C3_AbsentNameFails ==
    (ret.status # "none" /\ \E n \in Names \ NamesOfD : normalize(containerNames) = <<n>>) =>
        /\ ret.status = "threw"
        /\ ret.error = ContainerNotFound(normalize(containerNames)[1])
        /\ heap[taskDefinition.cd] = before

\* C4: the call is all-or-nothing over a sequence of names: when a name is
\* absent from D the call fails and no container image of D differs from its
\* value before the call.
C4_AllOrNothing ==
    (ret.status # "none" /\ ~(Requested \subseteq NamesOfD)) =>
        /\ ret.status = "threw"
        /\ heap[taskDefinition.cd] = before

\* C5 as stated: the returned document has no field other than the container
\* specs and the eight listed auxiliary fields.
C5_OnlyListedAuxiliaryFields ==
    ret.status = "returned" => DOMAIN ret.doc.fields \subseteq AuxiliaryFields

\* C5 (amended): the returned document has no field other than the container
\* specs, family and the eight listed auxiliary fields; every other field of
\* the source document, in particular its revision identity, is dropped.
C5_AllowList ==
    ret.status = "returned" =>
        /\ DOMAIN ret.doc.fields \subseteq AuxiliaryFields \cup {"family"}
        /\ ret.doc.cd = taskDefinition.cd
        /\ "taskDefinitionArn" \notin DOMAIN ret.doc.fields

C5_Witness ==
    /\ ret.status = "returned"
    /\ {"taskDefinitionArn", "revision", "status"} \subseteq DOMAIN taskDefinition.fields
    /\ "family" \in DOMAIN ret.doc.fields
    /\ IncidentalFields \cap DOMAIN ret.doc.fields = {}

\* C6: applying (S, i) to the result of applying (S, i) to D yields the same
\* document as applying (S, i) to D once.
C6_Idempotent ==
    ret2.status # "none" =>
        /\ ret2.status = "returned"
        /\ ret2.doc.fields = ret.doc.fields
        /\ ret2.cds = ret.cds

C6_Witness ==
    /\ ret2.status = "returned"
    /\ Requested # {}
    /\ ret.cds # before

----------------------------------------------------------------------------
\* currentTaskDefinition (specification SpecLocate)

OptionsSets ==
    [serviceName : {NULL, "planet-express"},
     taskDefinitionFamily : {NULL} \cup Families,
     clusterArn : {NULL} \cup Clusters,
     wait : {FALSE}]

IdleTransformer ==
    /\ heap = [r \in {ArrayOfD} |-> <<[name |-> "app", image |-> "image:1"]>>]
    /\ taskDefinition = [cd |-> ArrayOfD, fields |-> NoFields]
    /\ containerNames = [isArray |-> TRUE, value |-> <<>>, name |-> NULL]
    /\ image = "image:1"
    /\ before = heap[ArrayOfD]
    /\ ret = NoReturn
    /\ ret2 = NoReturn

InitLocate ==
    /\ options \in OptionsSets
    /\ variant \in Variants
    /\ latest = Idle
    /\ service = Idle
    /\ results = <<Idle, Idle>>
    /\ invoked = {}
    /\ calls = <<>>
    /\ inflight = {}
    /\ responses = NoResponses
    /\ stage = "start"
    /\ cbCalls = <<>>
    /\ IdleTransformer
    /\ IdleRun

\* The params a remote operation was called with.
ParamsOf(op) == (CHOOSE c \in Range(calls) : c.op = op).params

\* (err, result) as the callback given to updater receives them.
FinalCall(err, result) == [err |-> err, result |-> result]

\* The ways updater is called: with a callback, or as documented with
\* options alone, then and catch chained on what it hands back.
Runs == {"updater", "documented"}

\* cb(err, result) at the end of the waterfall: the callback given to updater
\* is invoked; when none was given the waterfall has nothing of the caller's
\* to invoke.
deliver(fcs, err, result) ==
    IF entry = "updater" THEN Append(fcs, FinalCall(err, result)) ELSE fcs

\* What the callback of currentTaskDefinition does with an error when it is
\* the next of the first task of the waterfall: the waterfall ends and the
\* callback given to updater receives the error; an exception nobody caught
\* ends the run with the process. updater has no return
\* statement: its call hands back undefined once the first task has run.
locateFailed ==
    /\ IF entry \in Runs /\ Len(cbCalls') > Len(cbCalls)
       THEN /\ finalCalls' = deliver(finalCalls, cbCalls'[Len(cbCalls')].err, NULL)
            /\ phase' = "done"
       ELSE /\ phase' = IF entry \in Runs /\ stage' = "uncaught" THEN "uncaught"
                        ELSE IF entry \in Runs /\ phase = "off" THEN "locate"
                        ELSE phase
            /\ UNCHANGED finalCalls
    /\ returned' = IF entry \in Runs /\ phase = "off" THEN NULL ELSE returned
    /\ UNCHANGED <<entry, deployed>>
    /\ UNCHANGED wvars

\* The synchronous part of currentTaskDefinition(options, cb): the check of
\* the request shape, then both lookups are started. In "index" each lookup
\* function is called and returns Promise.resolve() when its option is unset;
\* in "wrapped" the executor resolves its promise when the option is unset and
\* goes on to call the lookup all the same; in "callbacks" the task of an
\* unset option calls done() and not the lookup.
currentTaskDefinition ==
    /\ stage = "start"
    /\ IF neitherMode(options)
       THEN /\ cbCalls' = Append(cbCalls, Callback(ConfigurationError, NoTaskDefinition))
            /\ stage' = "done"
            /\ UNCHANGED <<latest, service, results, invoked, calls, inflight>>
       ELSE LET family == options.taskDefinitionFamily # NULL
                named == options.serviceName # NULL
                listed == variant = "wrapped" \/ family
                described == variant = "wrapped" \/ named
                rs == << IF family THEN Pending ELSE Fulfilled(NULL),
                         IF named THEN Pending ELSE Fulfilled(NULL) >>
                cs == calls
                      \o (IF listed
                          THEN <<Call("listTaskDefinitions", listTaskDefinitionsParams(options))>>
                          ELSE <<>>)
                      \o (IF described
                          THEN <<Call("describeServices", describeServicesParams(options))>>
                          ELSE <<>>)
                infl == (IF listed THEN {"listTaskDefinitions"} ELSE {})
                        \cup (IF described THEN {"describeServices"} ELSE {})
                next == afterLookups(rs, "lookups", cs, infl, cbCalls)
            IN  /\ invoked' = (IF variant \in CallbackStyle /\ ~family THEN {}
                                ELSE {"getLatestActiveTaskDefinition"})
                               \cup (IF variant \in CallbackStyle /\ ~named THEN {}
                                     ELSE {"getServiceTaskDefinition"})
                /\ latest' = IF listed THEN Pending
                             ELSE IF variant \in CallbackStyle THEN Idle ELSE Fulfilled(NULL)
                /\ service' = IF described THEN Pending
                              ELSE IF variant \in CallbackStyle THEN Idle ELSE Fulfilled(NULL)
                /\ results' = rs
                /\ stage' = next[1]
                /\ calls' = next[2]
                /\ inflight' = next[3]
                /\ cbCalls' = next[4]
    /\ UNCHANGED <<options, variant, responses>>
    /\ UNCHANGED tvars
    /\ locateFailed

\* listTaskDefinitions responds; the lookup settles; what waits on it runs.
\* In "sdk2" the message of the not-found error is built inside the callback
\* given to the remote call: the ReferenceError leaves that callback, done is
\* not called and the lookup never settles.
listTaskDefinitionsResponds ==
    /\ "listTaskDefinitions" \in inflight
    /\ \E ok \in BOOLEAN, active \in SUBSET Arns :
         LET listed == IF ok THEN listRevisions(ParamsOf("listTaskDefinitions"), active)
                       ELSE <<>>
             threw == variant = "sdk2" /\ ok /\ listed = <<>>
             o == IF threw THEN latest
                  ELSE IF ok THEN latestOf(listed)
                  ELSE Rejected(RemoteError("listTaskDefinitions"))
             rs == IF results[1].st = "pending" THEN [results EXCEPT ![1] = o] ELSE results
             next == IF threw
                     THEN <<"uncaught", calls, inflight \ {"listTaskDefinitions"}, cbCalls>>
                     ELSE afterLookups(rs, stage, calls,
                                       inflight \ {"listTaskDefinitions"}, cbCalls)
         IN  /\ responses' = [responses EXCEPT !.listTaskDefinitions =
                                 [status |-> IF ok THEN "ok" ELSE "error",
                                  taskDefinitionArns |-> listed,
                                  active |-> IF ok THEN active ELSE {}]]
             /\ latest' = o
             /\ results' = rs
             /\ stage' = next[1]
             /\ calls' = next[2]
             /\ inflight' = next[3]
             /\ cbCalls' = next[4]
    /\ UNCHANGED <<options, variant, service, invoked>>
    /\ UNCHANGED tvars
    /\ locateFailed

\* describeServices responds; the lookup settles; what waits on it runs.
describeServicesResponds ==
    /\ "describeServices" \in inflight
    /\ \E ok \in BOOLEAN, services \in ServiceLists :
         LET o == IF ok THEN serviceTaskDefinitionOf(options, services)
                  ELSE Rejected(RemoteError("describeServices"))
             rs == IF results[2].st = "pending" THEN [results EXCEPT ![2] = o] ELSE results
             next == afterLookups(rs, stage, calls,
                                  inflight \ {"describeServices"}, cbCalls)
         IN  /\ responses' = [responses EXCEPT !.describeServices =
                                 [status |-> IF ok THEN "ok" ELSE "error",
                                  services |-> IF ok THEN services ELSE <<>>]]
             /\ service' = o
             /\ results' = rs
             /\ stage' = next[1]
             /\ calls' = next[2]
             /\ inflight' = next[3]
             /\ cbCalls' = next[4]
    /\ UNCHANGED <<options, variant, latest, invoked>>
    /\ UNCHANGED tvars
    /\ locateFailed

\* The documents describeTaskDefinition may answer a run with: their
\* containers, and every field a described task definition carries.
FetchedContainerArrays ==
    { <<[name |-> "app", image |-> "image:1"]>>,
      <<[name |-> "app", image |-> "image:1"], [name |-> "worker", image |-> "image:2"]>> }
FetchedFields(v) == [f \in PickedFields \cup IncidentalFields |-> <<f, v>>]

\* The identity the remote service gives the revision it registers.
NewArn == "arn:created"

\* updater.updateService: the params of updateService.
updateServiceParams(opts, taskDefinitionArn) ==
    [cluster |-> opts.clusterArn, service |-> opts.serviceName,
     taskDefinition |-> taskDefinitionArn]

\* waitForStableDeployment: the params of waitFor('servicesStable').
waitForParams(opts) == [cluster |-> opts.clusterArn, services |-> <<opts.serviceName>>]

\* Mutant: the identity of the located revision is passed on.
registeredIdentityLocated(data) == cbCalls[1].taskDefinition.taskDefinitionArn

\* taskDefinition.taskDefinitionArn of the taskDefinition of register's response.
registeredIdentity(data) == data.taskDefinition.taskDefinitionArn

\* Mutant: createTaskDefinition hides the failure of registerTaskDefinition.
createTaskDefinitionHandsAlways(data) ==
    [err |-> NoError, taskDefinition |-> data.taskDefinition]

\* createTaskDefinition: what it hands the next of the second task, the
\* error or data.taskDefinition.
createTaskDefinitionHands(data) ==
    IF data.status = "ok"
    THEN [err |-> NoError, taskDefinition |-> data.taskDefinition]
    ELSE [err |-> RemoteError("registerTaskDefinition"), taskDefinition |-> NoTaskDefinition]

\* Mutant: the service is updated whether or not one is named.
skipsUpdateServiceNever(opts) == FALSE

\* if (!options.serviceName) return next(null, taskDefinition.taskDefinitionArn)
skipsUpdateService(opts) == opts.serviceName = NULL

\* Mutant: waitForStableDeployment hides the failure of waitFor.
waitForStableDeploymentHandsNoError(ok) == NoError

\* waitForStableDeployment: the err it hands its callback.
waitForStableDeploymentHands(ok) == IF ok THEN NoError ELSE RemoteError("waitFor")

\* Mutant: the service is updated a second time.
afterPublishTwice(arn, cs, infl, fcs) ==
    IF options.serviceName = NULL
    THEN <<"done", cs, infl, deliver(fcs, NoError, arn)>>
    ELSE <<"repoint",
           cs \o <<Call("updateService", updateServiceParams(options, arn)),
                   Call("updateService", updateServiceParams(options, arn))>>,
           infl \cup {"updateService"}, fcs>>

\* The end of the waterfall, or its fourth task in "sdk2" with options.wait.
\* The result is the new <<phase, calls, inflight, finalCalls>>.
afterRepoint(arn, cs, infl, fcs) ==
    IF variant = "sdk2" /\ options.wait
    THEN <<"wait", Append(cs, Call("waitFor", waitForParams(options))),
           infl \cup {"waitFor"}, fcs>>
    ELSE <<"done", cs, infl, deliver(fcs, NoError, arn)>>

\* The third task of the waterfall.
afterPublish(arn, cs, infl, fcs) ==
    IF skipsUpdateService(options)
    THEN afterRepoint(arn, cs, infl, fcs)
    ELSE <<"repoint", Append(cs, Call("updateService", updateServiceParams(options, arn))),
           infl \cup {"updateService"}, fcs>>

\* Mutant: the fetched document is registered, not what the transformer returned.
registerParamsFetched(r, doc) == [doc |-> doc, cds |-> r.heap[doc.cd]]

\* ecs.registerTaskDefinition(newTaskDefinition): the document sent, with its
\* containers as they are when it is sent.
registerParams(r, doc) == [doc |-> r.doc, cds |-> r.heap[r.doc.cd]]

\* The second task of the waterfall, run by the callback of
\* currentTaskDefinition with the located document: the transformer, then
\* registerTaskDefinition with what it returned. When the transformer throws,
\* the exception leaves the callback:
\*   "wrapped"  into a then with no catch behind it: nobody handles it;
\*   "sdk2"     into the remote client's callback: nobody catches it;
\*   "index", "callbacks"  into a then followed by .catch(err => cb(err)),
\*              which calls the next of the first task a second time. The
\*              waterfall of async 2 and later refuses that call by throwing
\*              "Callback was already called." inside the catch; that of
\*              async 1 ends the waterfall with the error. The library is not
\*              among the sources: both are possible.
secondTask(cds, v, td) ==
    LET h == [r \in {ArrayOfD} |-> cds]
        doc == [cd |-> ArrayOfD, fields |-> FetchedFields(v)]
        r == updateTaskDefinitionImage(variant, h, doc, containerNames, image)
        settled == inflight \ {"describeTaskDefinition"}
    IN  /\ heap' = r.heap
        /\ taskDefinition' = doc
        /\ before' = cds
        /\ ret' = Outcome(r)
        /\ UNCHANGED <<containerNames, image, ret2, entry, deployed, returned>>
        /\ UNCHANGED wvars
        /\ IF r.status = "returned"
           THEN /\ calls' = Append(calls, Call("registerTaskDefinition",
                                                 registerParams(r, doc)))
                /\ inflight' = settled \cup {"registerTaskDefinition"}
                /\ phase' = "publish"
                /\ cbCalls' = Append(cbCalls, Callback(NoError, td))
                /\ UNCHANGED finalCalls
           ELSE /\ calls' = calls
                /\ inflight' = settled
                /\ IF variant = "wrapped"
                   THEN /\ phase' = "unhandled"
                        /\ cbCalls' = Append(cbCalls, Callback(NoError, td))
                        /\ UNCHANGED finalCalls
                   ELSE IF variant = "sdk2"
                   THEN /\ phase' = "uncaught"
                        /\ cbCalls' = Append(cbCalls, Callback(NoError, td))
                        /\ UNCHANGED finalCalls
                   ELSE /\ cbCalls' = cbCalls \o <<Callback(NoError, td),
                                                   Callback(r.error, NoTaskDefinition)>>
                        /\ \E onlyOnce \in BOOLEAN :
                             IF onlyOnce
                             THEN /\ phase' = "unhandled"
                                  /\ UNCHANGED finalCalls
                             ELSE /\ phase' = "done"
                                  /\ finalCalls' = deliver(finalCalls, r.error, NULL)

\* describeTaskDefinition responds: the document goes to the callback; a
\* failure goes to the callback too, except in "wrapped", where getTaskDefinition
\* has no catch and the rejection is handled by nobody. In a run the callback
\* is the next of the first task: an error ends the waterfall, a document
\* starts the second task.
describeTaskDefinitionResponds ==
    /\ "describeTaskDefinition" \in inflight
    /\ \E ok \in BOOLEAN, v \in FieldVersions, cds \in FetchedContainerArrays :
         LET td == [taskDefinitionArn |-> ParamsOf("describeTaskDefinition").taskDefinition,
                    version |-> v]
         IN  /\ responses' = [responses EXCEPT !.describeTaskDefinition =
                                 IF ok THEN [status |-> "ok", taskDefinition |-> td]
                                 ELSE [status |-> "error", taskDefinition |-> NoTaskDefinition]]
             /\ stage' = IF ok \/ variant # "wrapped" THEN "done" ELSE "unhandled"
             /\ IF ok /\ entry \in Runs
                THEN secondTask(cds, v, td)
                ELSE /\ cbCalls' =
                          IF ok THEN Append(cbCalls, Callback(NoError, td))
                          ELSE IF variant # "wrapped"
                          THEN Append(cbCalls, Callback(RemoteError("describeTaskDefinition"),
                                                        NoTaskDefinition))
                          ELSE cbCalls
                     /\ inflight' = inflight \ {"describeTaskDefinition"}
                     /\ UNCHANGED calls
                     /\ UNCHANGED tvars
                     /\ locateFailed
    /\ UNCHANGED <<options, variant, latest, service, results, invoked>>

NextLocate ==
    \/ currentTaskDefinition
    \/ listTaskDefinitionsResponds
    \/ describeServicesResponds
    \/ describeTaskDefinitionResponds

SpecLocate == InitLocate /\ [][NextLocate]_vars

----------------------------------------------------------------------------
\* updater (specification SpecRun)

\* The containerNames a run is asked to update.
RunContainerNames ==
    { [isArray |-> FALSE, value |-> <<>>, name |-> "app"],
      [isArray |-> TRUE, value |-> <<"app", "worker">>, name |-> NULL],
      [isArray |-> TRUE, value |-> <<"db">>, name |-> NULL],
      [isArray |-> TRUE, value |-> <<>>, name |-> NULL] }

RunOptionsSets ==
    [serviceName : {NULL, "planet-express"},
     taskDefinitionFamily : {NULL} \cup Families,
     clusterArn : {NULL} \cup Clusters,
     wait : BOOLEAN]

\* updater is about to be called. options.wait is read by the "sdk2" snapshot
\* alone.
AboutToRun ==
    /\ variant \in Variants
    /\ options \in {o \in RunOptionsSets : o.wait => variant = "sdk2"}
    /\ latest = Idle
    /\ service = Idle
    /\ results = <<Idle, Idle>>
    /\ invoked = {}
    /\ calls = <<>>
    /\ inflight = {}
    /\ responses = NoResponses
    /\ stage = "start"
    /\ cbCalls = <<>>
    /\ heap = [r \in {ArrayOfD} |-> <<>>]
    /\ taskDefinition = NoDoc
    /\ containerNames \in RunContainerNames
    /\ image = "image:2"
    /\ before = <<>>
    /\ ret = NoReturn
    /\ ret2 = NoReturn
    /\ phase = "off"
    /\ finalCalls = <<>>
    /\ deployed = NULL
    /\ returned = "nothing yet"
    /\ IdleWaiter

\* updater(options, cb) is about to be called.
InitRun ==
    /\ entry = "updater"
    /\ AboutToRun

\* updater(options, cb): the waterfall starts and its first task calls
\* currentTaskDefinition with its next.
updater ==
    /\ entry = "updater"
    /\ currentTaskDefinition

\* registerTaskDefinition responds: createTaskDefinition hands the error or
\* data.taskDefinition to the next of the second task; the third task runs.
registerTaskDefinitionResponds ==
    /\ "registerTaskDefinition" \in inflight
    /\ \E ok \in BOOLEAN :
         LET data == [status |-> IF ok THEN "ok" ELSE "error",
                      taskDefinition |-> IF ok THEN [taskDefinitionArn |-> NewArn]
                                         ELSE NoTaskDefinition]
             settled == inflight \ {"registerTaskDefinition"}
             out == createTaskDefinitionHands(data)
             next == IF out.err = NoError
                     THEN afterPublish(registeredIdentity(out), calls, settled, finalCalls)
                     ELSE <<"done", calls, settled, deliver(finalCalls, out.err, NULL)>>
         IN  /\ responses' = [responses EXCEPT !.registerTaskDefinition = data]
             /\ phase' = next[1]
             /\ calls' = next[2]
             /\ inflight' = next[3]
             /\ finalCalls' = next[4]
    /\ UNCHANGED <<options, variant, latest, service, results, invoked, stage, cbCalls>>
    /\ UNCHANGED <<entry, deployed, returned>>
    /\ UNCHANGED wvars
    /\ UNCHANGED tvars

\* updateService responds: the remote service runs the revision it was given
\* if it accepted the call. "index" passes next the error alone, or the
\* registered identity; the other snapshots call next(err, identity) with
\* whatever err is.
updateServiceResponds ==
    /\ "updateService" \in inflight
    /\ \E ok \in BOOLEAN :
         LET arn == registeredIdentity(responses.registerTaskDefinition)
             settled == inflight \ {"updateService"}
             err == RemoteError("updateService")
             next == IF ok THEN afterRepoint(arn, calls, settled, finalCalls)
                     ELSE <<"done", calls, settled,
                            deliver(finalCalls, err,
                                    IF variant = "index" THEN NULL ELSE arn)>>
         IN  /\ responses' = [responses EXCEPT !.updateService =
                                 [status |-> IF ok THEN "ok" ELSE "error"]]
             /\ deployed' = IF ok THEN ParamsOf("updateService").taskDefinition
                             ELSE deployed
             /\ phase' = next[1]
             /\ calls' = next[2]
             /\ inflight' = next[3]
             /\ finalCalls' = next[4]
    /\ UNCHANGED <<options, variant, latest, service, results, invoked, stage, cbCalls>>
    /\ UNCHANGED <<entry, returned>>
    /\ UNCHANGED wvars
    /\ UNCHANGED tvars

\* waitFor('servicesStable') responds ("sdk2"): next(err, taskDefinitionArn).
waitForResponds ==
    /\ "waitFor" \in inflight
    /\ \E ok \in BOOLEAN :
         LET arn == registeredIdentity(responses.registerTaskDefinition)
         IN  /\ responses' = [responses EXCEPT !.waitFor =
                                 [status |-> IF ok THEN "ok" ELSE "error"]]
             /\ finalCalls' = deliver(finalCalls, waitForStableDeploymentHands(ok), arn)
    /\ phase' = "done"
    /\ inflight' = inflight \ {"waitFor"}
    /\ UNCHANGED <<options, variant, latest, service, results, invoked, calls, stage,
                   cbCalls>>
    /\ UNCHANGED <<entry, deployed, returned>>
    /\ UNCHANGED wvars
    /\ UNCHANGED tvars

NextRun ==
    \/ updater
    \/ listTaskDefinitionsResponds
    \/ describeServicesResponds
    \/ describeTaskDefinitionResponds
    \/ registerTaskDefinitionResponds
    \/ updateServiceResponds
    \/ waitForResponds

SpecRun == InitRun /\ [][NextRun]_vars

----------------------------------------------------------------------------
\* updater called as documented (specification SpecDocumented)

\* updater(options).then(...).catch(...) is about to be evaluated.
InitDocumented ==
    /\ entry = "documented"
    /\ AboutToRun

\* updater(options): the waterfall starts as it does with a callback, and
\* the call hands back undefined, on which then cannot be called.
updaterOptionsOnly ==
    /\ entry = "documented"
    /\ currentTaskDefinition

NextDocumented ==
    \/ updaterOptionsOnly
    \/ listTaskDefinitionsResponds
    \/ describeServicesResponds
    \/ describeTaskDefinitionResponds
    \/ registerTaskDefinitionResponds
    \/ updateServiceResponds
    \/ waitForResponds

SpecDocumented == InitDocumented /\ [][NextDocumented]_vars

----------------------------------------------------------------------------
\* Claims about currentTaskDefinition and its lookups

CallsOf(op) == {i \in 1..Len(calls) : calls[i].op = op}

\* C7: called with both serviceName and taskDefinitionFamily unset,
\* currentTaskDefinition fails with the configuration error and issues no
\* remote call.
C7_NeitherModeFails ==
    (stage # "start" /\ options.serviceName = NULL /\ options.taskDefinitionFamily = NULL) =>
        /\ cbCalls = <<Callback(ConfigurationError, NoTaskDefinition)>>
        /\ calls = <<>>
        /\ inflight = {}

C7_Witness ==
    /\ stage = "done"
    /\ options.serviceName = NULL
    /\ options.taskDefinitionFamily = NULL
    /\ Len(cbCalls) = 1

\* C8: only the lookup matching the addressing mode executes: with only
\* serviceName set getLatestActiveTaskDefinition is never invoked and no
\* list-task-definitions call is issued; with only taskDefinitionFamily set
\* getServiceTaskDefinition is never invoked and no describe-services call is
\* issued.
C8_OnlyMatchingLookupRuns ==
    /\ (options.serviceName # NULL /\ options.taskDefinitionFamily = NULL) =>
           /\ "getLatestActiveTaskDefinition" \notin invoked
           /\ CallsOf("listTaskDefinitions") = {}
    /\ (options.serviceName = NULL /\ options.taskDefinitionFamily # NULL) =>
           /\ "getServiceTaskDefinition" \notin invoked
           /\ CallsOf("describeServices") = {}

\* C8, the remote half alone: a lookup whose option is unset issues no call.
C8_NoCallForUnsetMode ==
    /\ options.taskDefinitionFamily = NULL => CallsOf("listTaskDefinitions") = {}
    /\ options.serviceName = NULL => CallsOf("describeServices") = {}

\* C9: getServiceTaskDefinition returns the task definition identity of the
\* entry of the describe-services response named options.serviceName, whatever
\* else the response holds and wherever the entry is; with no such entry it
\* fails with the not-found error.
C9_ServiceEntryByName ==
    responses.describeServices.status = "ok" =>
        LET services == responses.describeServices.services
            named == {i \in 1..Len(services) :
                          services[i].serviceName = options.serviceName}
        IN  IF named = {}
            THEN service = Rejected(ServiceNotFound(options.serviceName))
            ELSE /\ service.st = "fulfilled"
                 /\ \E i \in named : service.val = services[i].taskDefinition

C9_Witness ==
    /\ responses.describeServices.status = "ok"
    /\ options.serviceName # NULL
    /\ Len(responses.describeServices.services) = 2
    /\ responses.describeServices.services[1].serviceName # options.serviceName
    /\ responses.describeServices.services[2].serviceName = options.serviceName
    /\ responses.describeServices.services[1].taskDefinition
           # responses.describeServices.services[2].taskDefinition
    /\ service.st = "fulfilled"

\* C10: getLatestActiveTaskDefinition asks for the family's revisions of
\* active status in descending order and returns the first identity of the
\* returned list, the newest active revision, for every non-empty list.
C10_NewestActiveRevision ==
    /\ \A i \in CallsOf("listTaskDefinitions") :
           calls[i].params = [familyPrefix |-> options.taskDefinitionFamily,
                              sort |-> "DESC", status |-> "ACTIVE"]
    /\ (responses.listTaskDefinitions.status = "ok"
        /\ responses.listTaskDefinitions.taskDefinitionArns # <<>>) =>
           /\ latest = Fulfilled(responses.listTaskDefinitions.taskDefinitionArns[1])
           /\ latest.val \in responses.listTaskDefinitions.active
           /\ \A a \in responses.listTaskDefinitions.active :
                  Revision(a) <= Revision(latest.val)

C10_Witness ==
    /\ options.taskDefinitionFamily # NULL
    /\ responses.listTaskDefinitions.status = "ok"
    /\ Len(responses.listTaskDefinitions.taskDefinitionArns) >= 2
    /\ latest.st = "fulfilled"

\* C11: when the list of active revisions of the requested family is empty,
\* the by-family lookup fails with the not-found error naming the family, and
\* that error is what the caller of currentTaskDefinition receives.
C11_EmptyFamilyNotFound ==
    (responses.listTaskDefinitions.status = "ok"
     /\ responses.listTaskDefinitions.taskDefinitionArns = <<>>) =>
        /\ latest = Rejected(FamilyNotFound(options.taskDefinitionFamily))
        /\ (stage = "done" /\ service.st # "rejected") =>
               cbCalls = <<Callback(FamilyNotFound(options.taskDefinitionFamily),
                                    NoTaskDefinition)>>

\* C12: on success currentTaskDefinition hands its caller exactly the document
\* describe-task-definition returned for the identity the executed lookup
\* produced: describe-task-definition is called once, with the first non-empty
\* lookup outcome, and its document reaches the callback unchanged, once.
C12_DocumentOfLookedUpIdentity ==
    (cbCalls # <<>> /\ cbCalls[1].err = NoError) =>
        /\ Len(cbCalls) = 1
        /\ Cardinality(CallsOf("describeTaskDefinition")) = 1
        /\ ParamsOf("describeTaskDefinition") =
               [taskDefinition |-> IF options.taskDefinitionFamily # NULL
                                   THEN latest.val ELSE service.val]
        /\ responses.describeTaskDefinition.status = "ok"
        /\ responses.describeTaskDefinition.taskDefinition.taskDefinitionArn =
               ParamsOf("describeTaskDefinition").taskDefinition
        /\ cbCalls[1].taskDefinition = responses.describeTaskDefinition.taskDefinition

C12_Witness ==
    /\ stage = "done"
    /\ cbCalls # <<>>
    /\ cbCalls[1].err = NoError
    /\ options.taskDefinitionFamily # NULL
    /\ options.serviceName # NULL
    /\ latest.st = "fulfilled"
    /\ service.st = "fulfilled"
    /\ latest.val # service.val
    /\ cbCalls[1].taskDefinition.taskDefinitionArn = latest.val

----------------------------------------------------------------------------
\* Claims about updater

\* The run ended by handing the callback given to updater a result and no error.
Succeeded == finalCalls # <<>> /\ finalCalls[1].err = NoError

\* The identity register-task-definition answered with.
RegisteredArn == responses.registerTaskDefinition.taskDefinition.taskDefinitionArn

\* The position in calls of the only call of op.
CallOf(op) == CHOOSE i \in CallsOf(op) : TRUE

\* C13: for a request addressing a service, with wait off, a successful run
\* delivers an identity distinct from the service's original revision, the
\* published revision has every requested container at the requested image,
\* and the service runs the new identity.
C13_EndToEnd ==
    (options.serviceName # NULL /\ ~options.wait /\ Requested # {} /\ Succeeded) =>
        /\ service.st = "fulfilled"
        /\ finalCalls[1].result # service.val
        /\ finalCalls[1].result = RegisteredArn
        /\ Cardinality(CallsOf("registerTaskDefinition")) = 1
        /\ LET published == ParamsOf("registerTaskDefinition").cds
           IN  \A n \in Requested :
                   \E i \in 1..Len(published) :
                       published[i].name = n /\ published[i].image = image
        /\ deployed = finalCalls[1].result

C13_Witness ==
    /\ Succeeded
    /\ options.serviceName # NULL
    /\ options.taskDefinitionFamily = NULL
    /\ ~options.wait
    /\ \E i \in 1..Len(before) :
           /\ before[i].name \in Requested
           /\ before[i].image = "image:1"
    /\ image = "image:2"
    /\ deployed = NewArn
    /\ service.val \in Arns

\* C14: the stages run in the order locate, transform, publish, repoint, each
\* on its predecessor's output: register-task-definition is issued after the
\* located document arrived, with exactly what updateTaskDefinitionImage
\* returned for (located document, options.containerNames, options.image);
\* update-service is issued after register-task-definition responded, with
\* exactly the identity it returned.
C14_StagesInOrder ==
    /\ CallsOf("registerTaskDefinition") # {} =>
           /\ responses.describeTaskDefinition.status = "ok"
           /\ "describeTaskDefinition" \notin inflight
           /\ CallsOf("describeTaskDefinition") # {}
           /\ CallOf("describeTaskDefinition") < CallOf("registerTaskDefinition")
           /\ LET r == updateTaskDefinitionImage(variant, [a \in {ArrayOfD} |-> before],
                                                 taskDefinition, containerNames, image)
              IN  /\ r.status = "returned"
                  /\ ParamsOf("registerTaskDefinition") =
                         [doc |-> r.doc, cds |-> r.heap[r.doc.cd]]
    /\ CallsOf("updateService") # {} =>
           /\ responses.registerTaskDefinition.status = "ok"
           /\ "registerTaskDefinition" \notin inflight
           /\ CallsOf("registerTaskDefinition") # {}
           /\ CallOf("registerTaskDefinition") < CallOf("updateService")
           /\ ParamsOf("updateService").taskDefinition = RegisteredArn

C14_Witness ==
    /\ CallsOf("updateService") # {}
    /\ ParamsOf("updateService").taskDefinition = NewArn
    /\ Len(before) = 2
    /\ Cardinality(Requested) = 2
    /\ ParamsOf("registerTaskDefinition").cds # before

\* C15: update-service is issued if and only if options.serviceName is set,
\* at most once, with cluster = options.clusterArn, service =
\* options.serviceName and the newly registered identity; a successful run
\* delivers the newly registered identity whether or not a service was
\* targeted; with wait off the run ends on the acknowledgement of
\* update-service, nothing polling the service after it.
C15_RepointIffServiceNamed ==
    /\ CallsOf("updateService") # {} =>
           /\ options.serviceName # NULL
           /\ Cardinality(CallsOf("updateService")) = 1
           /\ ParamsOf("updateService") =
                  [cluster |-> options.clusterArn, service |-> options.serviceName,
                   taskDefinition |-> RegisteredArn]
    /\ (options.serviceName # NULL /\ responses.registerTaskDefinition.status = "ok") =>
           CallsOf("updateService") # {}
    /\ Succeeded =>
           /\ responses.registerTaskDefinition.status = "ok"
           /\ finalCalls = <<FinalCall(NoError, RegisteredArn)>>
    /\ (responses.updateService.status = "ok" /\ ~options.wait) =>
           /\ Succeeded
           /\ phase = "done"
           /\ inflight \cap {"updateService", "waitFor"} = {}
           /\ CallsOf("waitFor") = {}
           /\ \A i \in CallsOf("describeServices") : i < CallOf("updateService")

C15_Witness ==
    /\ Succeeded
    /\ options.serviceName # NULL
    /\ options.taskDefinitionFamily # NULL
    /\ options.clusterArn # NULL
    /\ responses.updateService.status = "ok"
    /\ finalCalls[1].result = NewArn

\* C15, the other way: a run that names no service succeeds with the
\* registered identity and no update-service call.
C15_WitnessNoService ==
    /\ Succeeded
    /\ options.serviceName = NULL
    /\ finalCalls[1].result = NewArn
    /\ CallsOf("updateService") = {}

\* The locate stage failed: currentTaskDefinition reported an error, or an
\* exception or rejection of its own was handled by nobody.
LocateFailed ==
    \/ \E i \in 1..Len(cbCalls) : i = 1 /\ cbCalls[i].err # NoError
    \/ stage \in {"unhandled", "uncaught"}

\* C16: a run stops at its first failure: after the locate stage or the
\* transformer failed, register-task-definition and update-service are never
\* issued; after register-task-definition failed, update-service is never
\* issued; after update-service failed, no wait is started.
C16_ShortCircuit ==
    /\ (LocateFailed \/ ret.status = "threw") =>
           /\ CallsOf("registerTaskDefinition") = {}
           /\ CallsOf("updateService") = {}
           /\ CallsOf("waitFor") = {}
    /\ responses.registerTaskDefinition.status = "error" =>
           /\ CallsOf("updateService") = {}
           /\ CallsOf("waitFor") = {}
    /\ responses.updateService.status = "error" => CallsOf("waitFor") = {}
    /\ (LocateFailed \/ ret.status = "threw"
        \/ responses.registerTaskDefinition.status = "error"
        \/ responses.updateService.status = "error") => inflight \subseteq
               {"listTaskDefinitions", "describeServices"}

C16_Witness ==
    /\ responses.registerTaskDefinition.status = "error"
    /\ options.serviceName # NULL
    /\ phase = "done"

\* C16, its last case: update-service failed in a run asked to wait.
C16_WitnessWait ==
    /\ responses.updateService.status = "error"
    /\ options.wait
    /\ phase = "done"

\* The remote operations of a run, in the order of its stages.
RemoteOps ==
    <<"listTaskDefinitions", "describeServices", "describeTaskDefinition",
      "registerTaskDefinition", "updateService">>

\* The waterfall of the run has not ended.
Running == phase \in {"locate", "publish", "repoint", "wait"}

\* C17: whenever a remote call of a run fails with error e while the run is
\* going, the callback given to updater receives exactly e.
C17_RemoteErrorReachesCaller ==
    [][\A k \in 1..Len(RemoteOps) :
          (/\ Running
           /\ responses[RemoteOps[k]].status = "none"
           /\ responses'[RemoteOps[k]].status = "error") =>
              /\ Len(finalCalls') = Len(finalCalls) + 1
              /\ finalCalls'[Len(finalCalls')].err = RemoteError(RemoteOps[k])]_vars

\* C18: when a requested container name is absent from the located document,
\* the run ends by handing the callback given to updater the
\* container-not-found error naming it, and no revision is published.
C18_AbsentNameEndsRun ==
    (ret.status # "none" /\ ~(Requested \subseteq NamesOfD)) =>
        /\ \E n \in Requested \ NamesOfD :
               finalCalls = <<FinalCall(ContainerNotFound(n), NULL)>>
        /\ CallsOf("registerTaskDefinition") = {}

\* C18, the half that holds: with a requested name absent nothing is published.
C18_NothingPublished ==
    (ret.status # "none" /\ ~(Requested \subseteq NamesOfD)) =>
        CallsOf("registerTaskDefinition") = {}

\* C19: when a run reports a failure to its caller, no stage result
\* accompanies the error.
C19_NoResultWithError ==
    \A i \in 1..Len(finalCalls) :
        finalCalls[i].err # NoError => finalCalls[i].result = NULL

\* C20: called with options only, updater hands back a promise, fulfilled
\* with the new identity when the run succeeds and rejected when it fails.
C20_HandsBackPromise ==
    (entry = "documented" /\ phase # "off") => returned = "promise"

\* C26: the wait stage runs only when options.wait is set and a service was
\* targeted: a run with wait set and no serviceName starts no wait, and a run
\* with wait unset never waits.
C26_WaitOnlyForNamedService ==
    CallsOf("waitFor") # {} => (options.wait /\ options.serviceName # NULL)

\* C26, the half that holds: a run with wait unset never waits.
C26_NoWaitUnlessAsked == CallsOf("waitFor") # {} => options.wait

\* C27: when publish and repoint succeed and the wait stage fails, the
\* callback given to updater is called with its error argument set, never
\* with a success.
C27_WaitFailureFailsRun ==
    (/\ responses.registerTaskDefinition.status = "ok"
     /\ responses.updateService.status = "ok"
     /\ responses.waitFor.status = "error") =>
        /\ Len(finalCalls) = 1
        /\ finalCalls[1].err = RemoteError("waitFor")

C27_Witness ==
    /\ responses.registerTaskDefinition.status = "ok"
    /\ responses.updateService.status = "ok"
    /\ responses.waitFor.status = "error"
    /\ phase = "done"

\* The remote operations the stages of a run call.
StageOps ==
    {"listTaskDefinitions", "describeServices", "describeTaskDefinition",
     "registerTaskDefinition", "updateService"}

\* C28: no stage retries: whatever fails, register-task-definition and
\* update-service are each issued at most once, and so is each call of the
\* locate stage.
C28_NoRetry == \A op \in StageOps : Cardinality(CallsOf(op)) <= 1

C28_Witness ==
    /\ phase = "done"
    /\ responses.listTaskDefinitions.status = "ok"
    /\ responses.describeServices.status = "ok"
    /\ responses.describeTaskDefinition.status = "ok"
    /\ responses.registerTaskDefinition.status = "ok"
    /\ responses.updateService.status = "error"
    /\ \A op \in StageOps : Cardinality(CallsOf(op)) = 1

----------------------------------------------------------------------------
\* waiter (specification SpecWait)

MaxDeployments == 2
MaxCount == 1
MaxPolls == 3

\* setTimeout(periodicCheck, 2 * 1000)
InitialDelay == 2 * 1000

\* options.interval, in seconds.
Intervals == {1, 30}

\* The revision waited for, and another one.
TargetArn == NewArn
DeployedArns == {TargetArn, "arn:1"}

WaiterOptionsSets ==
    [serviceName : {"planet-express"}, clusterArn : Clusters,
     taskDefinitionArn : {TargetArn}, interval : Intervals, verbose : BOOLEAN]

\* The deployments a service may report.
Deployment ==
    [taskDefinition : DeployedArns, runningCount : 0..MaxCount, pendingCount : 0..MaxCount]
DeploymentLists == SeqsUpTo(Deployment, MaxDeployments)

\* The services a describe-services response may hold: none, or one, named
\* as asked or otherwise.
DescribedServices(deps) ==
    {<<>>} \cup {<<[serviceName |-> n, deployments |-> deps]>> : n \in ServiceNames}

\* Mutant: a response without the named service counts as one without deployments.
getServiceTaskDeploymentsLenient(opts, ok, services) ==
    LET matches == {i \in 1..Len(services) : services[i].serviceName = opts.serviceName}
    IN  IF ~ok
        THEN [status |-> "error", err |-> RemoteError("describeServices"),
              deployments |-> <<>>]
        ELSE IF matches = {}
        THEN [status |-> "ok", err |-> NoError, deployments |-> <<>>]
        ELSE [status |-> "ok", err |-> NoError,
              deployments |-> services[CHOOSE i \in matches : \A k \in matches : i <= k]
                                  .deployments]

\* getServiceTaskDeployments: what the callback of describeServices hands on.
getServiceTaskDeployments(opts, ok, services) ==
    LET matches == {i \in 1..Len(services) : services[i].serviceName = opts.serviceName}
    IN  IF ~ok
        THEN [status |-> "error", err |-> RemoteError("describeServices"),
              deployments |-> <<>>]
        ELSE IF matches = {}
        THEN [status |-> "error", err |-> ServiceNotFound(opts.serviceName),
              deployments |-> <<>>]
        ELSE [status |-> "ok", err |-> NoError,
              deployments |-> services[CHOOSE i \in matches : \A k \in matches : i <= k]
                                  .deployments]

\* Mutant: any list counts as current.
isCurrentAlways(opts, deps) == TRUE

\* deployments.filter(d => d.taskDefinition === options.taskDefinitionArn).length === 1
isCurrent(opts, deps) ==
    Len(SelectSeq(deps, LAMBDA d : d.taskDefinition = opts.taskDefinitionArn)) = 1

\* Mutant: a sole deployment counts only once nothing of it is pending.
isDeployedSettled(deps) == Len(deps) = 1 /\ deps[1].pendingCount = 0

\* deployments.length === 1
isDeployed(deps) == Len(deps) = 1

\* 'X'.repeat(n)
RECURSIVE repeat(_, _)
repeat(c, n) == IF n = 0 THEN <<>> ELSE <<c>> \o repeat(c, n - 1)

\* The line written when options.verbose is set.
RECURSIVE progressOf(_, _)
progressOf(opts, deps) ==
    IF deps = <<>> THEN <<>>
    ELSE (IF Head(deps).taskDefinition = opts.taskDefinitionArn
          THEN repeat("X", Head(deps).runningCount) \o repeat("x", Head(deps).pendingCount)
          ELSE repeat(".", Head(deps).runningCount))
         \o progressOf(opts, Tail(deps))
progress(opts, deps) == <<"[">> \o progressOf(opts, deps) \o <<"]">>

\* Mutant: two timers are set when the waiter starts.
initialTimersTwice == <<InitialDelay, InitialDelay>>

\* setTimeout(periodicCheck, 2 * 1000): the timers the call of waiter sets.
initialTimers == <<InitialDelay>>

\* Mutant: the next timer is set within the block of options.verbose.
periodicCheckCallbackVerboseTimer(opts, got) ==
    IF got.status = "error"
    THEN [cb |-> <<got.err>>, logged |-> NothingLogged, timers |-> <<>>]
    ELSE IF ~isCurrent(opts, got.deployments)
    THEN [cb |-> <<>>, logged |-> [kind |-> "is no longer deploying", output |-> <<>>],
          timers |-> <<>>]
    ELSE IF isDeployed(got.deployments)
    THEN [cb |-> <<>>, logged |-> [kind |-> "is deployed", output |-> <<>>],
          timers |-> <<>>]
    ELSE [cb |-> <<>>,
          logged |-> IF opts.verbose
                     THEN [kind |-> "progress", output |-> progress(opts, got.deployments)]
                     ELSE NothingLogged,
          timers |-> IF opts.verbose THEN <<opts.interval * 1000>> ELSE <<>>]

\* Mutant: the callback goes on after cb(err), to the setTimeout of its end.
periodicCheckCallbackNoReturn(opts, got) ==
    IF got.status = "error"
    THEN [cb |-> <<got.err>>, logged |-> NothingLogged,
          timers |-> <<opts.interval * 1000>>]
    ELSE IF ~isCurrent(opts, got.deployments)
    THEN [cb |-> <<>>, logged |-> [kind |-> "is no longer deploying", output |-> <<>>],
          timers |-> <<>>]
    ELSE IF isDeployed(got.deployments)
    THEN [cb |-> <<>>, logged |-> [kind |-> "is deployed", output |-> <<>>],
          timers |-> <<>>]
    ELSE [cb |-> <<>>,
          logged |-> IF opts.verbose
                     THEN [kind |-> "progress", output |-> progress(opts, got.deployments)]
                     ELSE NothingLogged,
          timers |-> <<opts.interval * 1000>>]

\* The callback periodicCheck gives getServiceTaskDeployments: the calls of
\* cb it makes, what it logs and the timers it sets.
periodicCheckCallback(opts, got) ==
    IF got.status = "error"
    THEN [cb |-> <<got.err>>, logged |-> NothingLogged, timers |-> <<>>]
    ELSE IF ~isCurrent(opts, got.deployments)
    THEN [cb |-> <<>>, logged |-> [kind |-> "is no longer deploying", output |-> <<>>],
          timers |-> <<>>]
    ELSE IF isDeployed(got.deployments)
    THEN [cb |-> <<>>, logged |-> [kind |-> "is deployed", output |-> <<>>],
          timers |-> <<>>]
    ELSE [cb |-> <<>>,
          logged |-> IF opts.verbose
                     THEN [kind |-> "progress", output |-> progress(opts, got.deployments)]
                     ELSE NothingLogged,
          timers |-> <<opts.interval * 1000>>]

\* waiter has not been called; nothing else of the module runs.
InitWait ==
    /\ IdleWaiter
    /\ IdleTransformer
    /\ IdleLocator
    /\ variant = "sdk2"
    /\ entry = "waiter"
    /\ phase = "off"
    /\ finalCalls = <<>>
    /\ deployed = NULL
    /\ returned = "nothing yet"

\* waiter(options, cb): the first timer is set.
waiter ==
    /\ waiterOptions = NoWaiterOptions
    /\ \E o \in WaiterOptionsSets : waiterOptions' = o
    /\ timers' = timers \o initialTimers
    /\ UNCHANGED <<outstanding, polls, response, polled, logged, waiterCb, rollout>>
    /\ UNCHANGED <<tvars, lvars, pvars>>

\* A timer fires: periodicCheck calls getServiceTaskDeployments, which calls
\* describeServices.
periodicCheck ==
    /\ timers # <<>>
    /\ polls < MaxPolls
    /\ timers' = Tail(timers)
    /\ outstanding' = outstanding + 1
    /\ polls' = polls + 1
    /\ response' = NothingDescribed
    /\ polled' = NothingPolled
    /\ logged' = NothingLogged
    /\ UNCHANGED <<waiterOptions, waiterCb, rollout>>
    /\ UNCHANGED <<tvars, lvars, pvars>>

\* describeServices responds to a poll, with an error or with services; the
\* callback of the poll runs.
pollRespondsWith(ok, services) ==
    /\ outstanding > 0
    /\ LET got == getServiceTaskDeployments(waiterOptions, ok, services)
           did == periodicCheckCallback(waiterOptions, got)
       IN  /\ response' = [status |-> IF ok THEN "ok" ELSE "error",
                             services |-> IF ok THEN services ELSE <<>>]
           /\ polled' = got
           /\ logged' = did.logged
           /\ waiterCb' = waiterCb \o did.cb
           /\ timers' = timers \o did.timers
    /\ outstanding' = outstanding - 1
    /\ UNCHANGED <<waiterOptions, polls, rollout>>
    /\ UNCHANGED <<tvars, lvars, pvars>>

pollResponds ==
    \E ok \in BOOLEAN, deps \in DeploymentLists :
      \E services \in DescribedServices(deps) : pollRespondsWith(ok, services)

NextWait == waiter \/ periodicCheck \/ pollResponds

SpecWait == InitWait /\ [][NextWait]_vars

----------------------------------------------------------------------------
\* waiter, with the service's rollout followed (specification SpecWaitRollout)

\* The lists a service reports while the revision waited for is rolled out:
\* one deployment of it, alongside deployments of other revisions.
MidFlightLists ==
    {deps \in DeploymentLists :
        /\ Len(deps) >= 2
        /\ Cardinality({i \in 1..Len(deps) : deps[i].taskDefinition = TargetArn}) = 1}

\* The lists it reports once the rollout is complete: the deployment of the
\* revision waited for, and no other.
CompleteLists == {deps \in DeploymentLists : Len(deps) = 1 /\ deps[1].taskDefinition = TargetArn}

RolloutLists == IF rollout = "complete" THEN CompleteLists ELSE MidFlightLists

\* waiter has not been called and the rollout is mid-flight.
InitWaitRollout ==
    /\ waiterOptions = NoWaiterOptions
    /\ timers = <<>>
    /\ outstanding = 0
    /\ polls = 0
    /\ response = NothingDescribed
    /\ polled = NothingPolled
    /\ logged = NothingLogged
    /\ waiterCb = <<>>
    /\ rollout = "mid-flight"
    /\ IdleTransformer
    /\ IdleLocator
    /\ variant = "sdk2"
    /\ entry = "waiter"
    /\ phase = "off"
    /\ finalCalls = <<>>
    /\ deployed = NULL
    /\ returned = "nothing yet"

\* The service drops its other deployments: the rollout is complete.
rolloutCompletes ==
    /\ rollout = "mid-flight"
    /\ rollout' = "complete"
    /\ UNCHANGED <<waiterOptions, timers, outstanding, polls, response, polled, logged,
                   waiterCb>>
    /\ UNCHANGED <<tvars, lvars, pvars>>

\* describeServices succeeds and reports the service as its rollout stands.
\* The last poll MaxPolls allows is answered once the rollout is complete.
pollRespondsRollout ==
    /\ rollout = "mid-flight" => polls < MaxPolls
    /\ \E deps \in RolloutLists :
         pollRespondsWith(TRUE, <<[serviceName |-> waiterOptions.serviceName,
                                   deployments |-> deps]>>)

NextWaitRollout == waiter \/ periodicCheck \/ pollRespondsRollout \/ rolloutCompletes

\* Timers fire, describeServices responds, the rollout completes.
SpecWaitRollout ==
    /\ InitWaitRollout
    /\ [][NextWaitRollout]_vars
    /\ WF_vars(periodicCheck)
    /\ WF_vars(pollRespondsRollout)
    /\ WF_vars(rolloutCompletes)

----------------------------------------------------------------------------
\* Claims about waiter

\* Nothing of the waiter is pending: no timer, no call.
Quiet == timers = <<>> /\ outstanding = 0

\* The states the waiter is described with.
Polling == waiterOptions # NoWaiterOptions /\ ~Quiet
Converged == Quiet /\ logged.kind = "is deployed"
Superseded == Quiet /\ logged.kind = "is no longer deploying"
Failed == Quiet /\ waiterCb # <<>>

\* The deployments of the current poll that reference the revision waited for.
Referencing ==
    {i \in 1..Len(polled.deployments) :
         polled.deployments[i].taskDefinition = waiterOptions.taskDefinitionArn}

\* C21: on a poll whose deployment list is exactly one deployment, and that
\* one references the revision waited for, the waiter reaches Converged,
\* whatever the running and pending counts are.
C21_SoleTargetConverges ==
    (/\ polled.status = "ok"
     /\ Len(polled.deployments) = 1
     /\ polled.deployments[1].taskDefinition = waiterOptions.taskDefinitionArn) =>
        /\ Converged
        /\ waiterCb = <<>>

C21_Witness ==
    /\ polled.status = "ok"
    /\ Len(polled.deployments) = 1
    /\ polled.deployments[1].taskDefinition = waiterOptions.taskDefinitionArn
    /\ polled.deployments[1].pendingCount > 0
    /\ polled.deployments[1].runningCount = 0
    /\ polls > 1
    /\ Converged

\* C22: on every poll whose deployment list holds the revision waited for
\* together with at least one other deployment, the waiter stays in Polling
\* and sets exactly one timer, of the configured interval.
C22_MidRolloutKeepsPolling ==
    (/\ polled.status = "ok"
     /\ Referencing # {}
     /\ Len(polled.deployments) >= 2) =>
        /\ Polling
        /\ timers = <<waiterOptions.interval * 1000>>
        /\ outstanding = 0
        /\ waiterCb = <<>>

\* C22, for lists in which one deployment alone references the revision.
C22_OneReferenceKeepsPolling ==
    (/\ polled.status = "ok"
     /\ Cardinality(Referencing) = 1
     /\ Len(polled.deployments) >= 2) =>
        /\ Polling
        /\ timers = <<waiterOptions.interval * 1000>>
        /\ outstanding = 0
        /\ waiterCb = <<>>

\* C23: on a poll whose deployment list holds no deployment referencing the
\* revision waited for, the waiter reaches Superseded, and no error is
\* reported.
C23_AbsentTargetSuperseded ==
    (polled.status = "ok" /\ Referencing = {}) =>
        /\ Superseded
        /\ waiterCb = <<>>

C23_Witness ==
    /\ polled.status = "ok"
    /\ Len(polled.deployments) = 1
    /\ Referencing = {}
    /\ Superseded
    /\ polls > 1

\* C24: whenever the waiter reaches a terminal state, the callback given to
\* it is called with the outcome: Converged and Superseded are reported, and
\* can be told apart.
C24_TerminalStateReported ==
    (Converged \/ Superseded \/ Failed) => Len(waiterCb) = 1

\* C25: when describe-services fails, or its response lacks the named
\* service, the waiter reaches Failed: the callback receives that error
\* exactly once and no further poll is scheduled.
C25_PollErrorFails ==
    LET named == {i \in 1..Len(response.services) :
                      response.services[i].serviceName = waiterOptions.serviceName}
    IN  /\ response.status = "error" =>
              /\ Failed
              /\ waiterCb = <<RemoteError("describeServices")>>
        /\ (response.status = "ok" /\ named = {}) =>
              /\ Failed
              /\ waiterCb = <<ServiceNotFound(waiterOptions.serviceName)>>

C25_Witness ==
    /\ response.status = "ok"
    /\ Len(response.services) = 1
    /\ response.services[1].serviceName # waiterOptions.serviceName
    /\ polls > 1
    /\ Failed

\* C29: the waiter enters Superseded only on a poll whose deployment list
\* holds no deployment referencing the revision waited for.
C29_SupersededOnlyWithoutTarget == Superseded => Referencing = {}

\* C30: polls never overlap: at most one timer or describe-services call of
\* the waiter is pending at any time, a poll is started only by a timer
\* firing, and the first poll only by the timer of the initial delay.
C30_PollsNeverOverlap ==
    /\ [](Len(timers) + outstanding <= 1)
    /\ [][polls' # polls =>
            /\ polls' = polls + 1
            /\ outstanding' = outstanding + 1
            /\ timers # <<>>
            /\ timers' = Tail(timers)
            /\ polls = 0 => Head(timers) = InitialDelay]_vars
    /\ [][outstanding' > outstanding => polls' = polls + 1]_vars

C30_Witness ==
    /\ polls = MaxPolls
    /\ outstanding = 1
    /\ timers = <<>>

\* The current poll ended the waiter: it logged one of the two final lines,
\* or called the callback.
Ended ==
    \/ logged.kind \in {"is deployed", "is no longer deploying"}
    \/ waiterCb # <<>>

\* C31: Converged, Superseded and Failed are absorbing: once the waiter has
\* ended, no describe-services call is issued, no timer is set and nothing of
\* the waiter changes again.
C31_TerminalStatesAbsorbing ==
    /\ [](Ended => Quiet)
    /\ [][Ended => (Ended' /\ UNCHANGED wvars)]_vars

C31_Witness ==
    /\ Failed
    /\ polls > 1
    /\ polled.err = RemoteError("describeServices")

\* C32: the waiter has no attempt bound and no timeout: after any number of
\* polls that each found the revision waited for alongside other deployments
\* it is still Polling, with the timer of the next poll set, and it leaves
\* Polling only by ending.
C32_NoAttemptBound ==
    /\ \A n \in 1..MaxPolls :
         (/\ polls = n
          /\ polled.status = "ok"
          /\ Referencing # {}
          /\ Len(polled.deployments) >= 2) =>
             /\ Polling
             /\ Len(timers) = 1
             /\ n < MaxPolls => ENABLED periodicCheck
    /\ (waiterOptions # NoWaiterOptions /\ ~Polling) => Ended

\* C32, for lists in which one deployment alone references the revision.
C32_OneReferenceNoBound ==
    /\ \A n \in 1..MaxPolls :
         (/\ polls = n
          /\ polled.status = "ok"
          /\ Cardinality(Referencing) = 1
          /\ Len(polled.deployments) >= 2) =>
             /\ Polling
             /\ Len(timers) = 1
             /\ n < MaxPolls => ENABLED periodicCheck
    /\ (waiterOptions # NoWaiterOptions /\ ~Polling) => Ended

\* C33: when every describeServices call succeeds, timers fire, every poll
\* up to some point finds the revision waited for once alongside other
\* deployments and every poll from then on finds its deployment alone, the
\* waiter, once called, eventually reaches Converged.
C33_EventuallyConverged == (waiterOptions # NoWaiterOptions) ~> Converged

C33_Witness ==
    /\ rollout = "complete"
    /\ Converged
    /\ polls = MaxPolls
    /\ polled.deployments[1].pendingCount > 0

\* What the callback of the current poll does when options.verbose is v.
withVerbose(v) == periodicCheckCallback([waiterOptions EXCEPT !.verbose = v], polled)

\* C34: verbose reporting does not influence the waiter: whatever a poll is
\* answered with, the waiter called with options.verbose set and the one
\* called with it unset call cb alike, set the same timers and end alike, and
\* differ in the progress line alone; so the state the waiter is in after
\* the poll is the one it would be in with options.verbose the other way.
C34_VerboseDoesNotInfluence ==
    (polled.status # "none") =>
        /\ withVerbose(TRUE).cb = withVerbose(FALSE).cb
        /\ withVerbose(TRUE).timers = withVerbose(FALSE).timers
        /\ \/ withVerbose(TRUE).logged = withVerbose(FALSE).logged
           \/ /\ withVerbose(TRUE).logged.kind = "progress"
              /\ withVerbose(FALSE).logged = NothingLogged
        /\ timers = withVerbose(~waiterOptions.verbose).timers
        /\ waiterCb = withVerbose(~waiterOptions.verbose).cb
        /\ outstanding = 0

C34_Witness ==
    /\ waiterOptions.verbose
    /\ logged.kind = "progress"
    /\ Len(logged.output) > 3
    /\ timers = <<waiterOptions.interval * 1000>>
    /\ polls > 1

----------------------------------------------------------------------------
\* Claims about the two lookups of currentTaskDefinition (SpecLocate)

bothModes == options.serviceName # NULL /\ options.taskDefinitionFamily # NULL
lookupOps == {"listTaskDefinitions", "describeServices"}

\* Both lookups are in flight as soon as currentTaskDefinition has run;
\* describeTaskDefinition is called only with both lookups settled without
\* error; the error of a failed lookup is what the callback receives, and
\* describeTaskDefinition is not called.
lookupsConcurrentThenFetch ==
    /\ (/\ bothModes
        /\ stage # "start"
        /\ responses.listTaskDefinitions.status = "none"
        /\ responses.describeServices.status = "none") =>
           /\ lookupOps \subseteq inflight
           /\ latest = Pending /\ service = Pending
    /\ CallsOf("describeTaskDefinition") # {} =>
           /\ latest.st \notin {"pending", "rejected"}
           /\ service.st \notin {"pending", "rejected"}
           /\ options.taskDefinitionFamily # NULL => latest.st = "fulfilled"
           /\ options.serviceName # NULL => service.st = "fulfilled"
    /\ (latest.st = "rejected" \/ service.st = "rejected") =>
           /\ CallsOf("describeTaskDefinition") = {}
           /\ Len(cbCalls) = 1
           /\ cbCalls[1].taskDefinition = NoTaskDefinition
           /\ \/ latest.st = "rejected" /\ cbCalls[1].err = latest.err
              \/ service.st = "rejected" /\ cbCalls[1].err = service.err

\* C35: the two lookups are started without either waiting for the other;
\* describe-task-definition is issued only after both have completed
\* successfully; if either fails it is never issued and the caller receives
\* that failure.
C35_LookupsConcurrentThenFetch == lookupsConcurrentThenFetch

\* C35, in the snapshots of src/index.js:44-60 and src/unnamed/part_000:39-58.
C35_PromiseAllAndParallel ==
    variant \in {"index", "callbacks"} => lookupsConcurrentThenFetch

\* C36: with both serviceName and taskDefinitionFamily set and both lookups
\* successful, the document fetched is that of the identity the by-family
\* lookup found, whichever lookup completes first: no fetch is issued while
\* either lookup is pending, and the step that issues it, be it the answer to
\* the one lookup or to the other, asks for the by-family identity.
C36_FamilyIdentityWhateverTheOrder ==
    /\ []((bothModes /\ CallsOf("describeTaskDefinition") # {}) =>
              /\ latest.st = "fulfilled" /\ service.st = "fulfilled"
              /\ Cardinality(CallsOf("describeTaskDefinition")) = 1
              /\ ParamsOf("describeTaskDefinition") = [taskDefinition |-> latest.val])
    /\ []((bothModes /\ latest.st = "fulfilled" /\ service.st = "fulfilled") =>
              CallsOf("describeTaskDefinition") # {})
    /\ [][(bothModes /\ service.st = "pending" /\ service'.st = "fulfilled"
                     /\ latest.st = "fulfilled") =>
              calls' = Append(calls, Call("describeTaskDefinition",
                                          [taskDefinition |-> latest.val]))]_vars
    /\ [][(bothModes /\ latest.st = "pending" /\ latest'.st = "fulfilled"
                     /\ service.st = "fulfilled") =>
              calls' = Append(calls, Call("describeTaskDefinition",
                                          [taskDefinition |-> latest'.val]))]_vars

C36_Witness ==
    /\ bothModes
    /\ stage = "describing"
    /\ latest.st = "fulfilled"
    /\ service.st = "fulfilled"
    /\ latest.val # service.val
    /\ "describeTaskDefinition" \in inflight

----------------------------------------------------------------------------
\* Claims about whole runs, continued (SpecRun)

\* C37: every run of updater invokes the callback given to it exactly once,
\* with an error or with the new identity, once every remote call it made
\* has responded: never twice, and never not at all.
C37_CallbackExactlyOnce ==
    /\ Len(finalCalls) <= 1
    /\ (phase # "off" /\ inflight = {}) =>
           /\ Len(finalCalls) = 1
           /\ \/ finalCalls[1].err # NoError
              \/ finalCalls[1].result = NewArn

\* C37, the half that holds: the callback is never invoked twice.
C37_NeverTwice == Len(finalCalls) <= 1

\* The request names both a service and a family, or no container.
violatesRequestInvariant == bothModes \/ Requested = {}

\* C38: a run never issues register-task-definition for a request that
\* violates the request invariant: with both serviceName and
\* taskDefinitionFamily set, or with an empty list of container names, no
\* revision is published.
C38_NoPublicationForInvalidRequest ==
    violatesRequestInvariant => CallsOf("registerTaskDefinition") = {}

\* C38, for the request shape currentTaskDefinition does reject: with neither
\* serviceName nor taskDefinitionFamily set no revision is published.
C38_NoPublicationWithNeitherMode ==
    neitherMode(options) => CallsOf("registerTaskDefinition") = {}

====
